---- MODULE Spec2Model ----
(***************************************************************************)
(* Model of PetStorage (src/src/pet/storage.rs): a lock-free in-memory     *)
(* queue of PetAddressInfo records in front of a sled key-value store,     *)
(* with fire-and-forget background tasks mirroring every push/pop into the *)
(* store, a periodic counter checkpoint, and recovery at construction.     *)
(*                                                                         *)
(* Every atomic access to shared memory (SegQueue push/pop, fetch_add,     *)
(* fetch_sub, load) is one step of the calling thread.  Every critical     *)
(* section under db.write() is one step of the background task holding     *)
(* the lock: the RwLock serialises them, and the foreground never touches  *)
(* the store.                                                              *)
(***************************************************************************)
EXTENDS Integers, Sequences, FiniteSets, Bags, TLC

(***************************************************************************)
(* Bounds of the model.                                                    *)
(***************************************************************************)
\* store_address calls over the whole history (all runs together)
MaxStores == 3
\* crashes of the process
MaxCrashes == 2
\* clear_all_addresses calls in one run of the process
MaxClears == 1
\* the longest candidate address, in chars
MaxLen == 4
\* the longest id, in decimal digits (a u64 has up to 20)
MaxDigits == 11
\* width of usize in the model (the build has 64)
UsizeBits == 8

Threads == {"t1", "t2"}
Addresses == {"aPet"}

UsizeModulus == 2 ^ UsizeBits

(***************************************************************************)
(* Records (src/src/pet/address.rs)                                        *)
(***************************************************************************)
\* a PetAddressInfo value
PetAddressInfo(id, address, created_at) ==
    [id |-> id, address |-> address, created_at |-> created_at]

\* placeholder for "no record" in locals and results
NoInfo == PetAddressInfo(0, "", 0)

(***************************************************************************)
(* Atomics                                                                 *)
(***************************************************************************)
\* AtomicU64::fetch_add(1) on the id counter: the new counter value.
\* The guards keep the counter far below 2^64, so the wrap is not modelled.
next_id_stuck(c) == c
next_id_narrow(c) == (c + 1) % 2
next_id(c) == c + 1

\* AtomicUsize::fetch_add(1) / fetch_sub(1): wrapping arithmetic
usize_fetch_add_lost(x) == x
usize_fetch_add(x) == (x + 1) % UsizeModulus

usize_fetch_sub_lost(x) == x
usize_fetch_sub(x) == (x - 1) % UsizeModulus

(***************************************************************************)
(* SegQueue: a linearizable multi-producer multi-consumer FIFO             *)
(***************************************************************************)
queue_push_front(q, x) == <<x>> \o q
queue_push(q, x) == Append(q, x)

queue_pop_rest(q) == Tail(q)

queue_pop_item_last(q) == q[Len(q)]
queue_pop_item(q) == Head(q)

(***************************************************************************)
(* Keys and values of the sled store                                       *)
(***************************************************************************)
\* minimum number of digits of format!("{:010}")
KeyWidth == 10

CounterKey == <<"counter">>
AddressPrefix == "address:"

RECURSIVE Digits(_)
\* decimal digits of n, most significant first
Digits(n) == IF n < 10 THEN <<n>> ELSE Append(Digits(n \div 10), n % 10)

\* format!("address:{:010}", id), for an id given by its decimal digits:
\* zero-padded to at least KeyWidth digits
KeyOfDigits(d) ==
    LET pad == IF Len(d) >= KeyWidth THEN <<>>
               ELSE [i \in 1..(KeyWidth - Len(d)) |-> 0]
    IN <<AddressPrefix>> \o pad \o d

AddressKey_unnumbered(id) == <<AddressPrefix>> \o [i \in 1..KeyWidth |-> 0]
AddressKey(id) == KeyOfDigits(Digits(id))

\* the key starts with b"address:"
HasAddressPrefix(k) == k[1] = AddressPrefix

\* byte-wise lexicographic order of two address keys (sled's key order)
KeyLess(a, b) ==
    \/ \E i \in 2..Len(a) :
          /\ i <= Len(b)
          /\ a[i] < b[i]
          /\ \A j \in 2..(i - 1) : a[j] = b[j]
    \/ /\ Len(a) < Len(b)
       /\ \A j \in 2..Len(a) : a[j] = b[j]

RECURSIVE SortKeys(_)
SortKeys(S) ==
    IF S = {} THEN <<>>
    ELSE LET m == CHOOSE k \in S : \A o \in S \ {k} : KeyLess(k, o)
         IN <<m>> \o SortKeys(S \ {m})

\* db.scan_prefix(b"address:"): the address keys in key order
scan_prefix(store) == SortKeys({k \in DOMAIN store : HasAddressPrefix(k)})

\* db.insert / db.remove
db_insert(store, k, v) ==
    [x \in (DOMAIN store) \cup {k} |-> IF x = k THEN v ELSE store[x]]
db_remove(store, k) == [x \in (DOMAIN store) \ {k} |-> store[x]]

RECURSIVE BeBytes(_, _)
\* the n low bytes of x, most significant first
BeBytes(x, n) ==
    IF n = 0 THEN <<>> ELSE Append(BeBytes(x \div 256, n - 1), x % 256)

\* u64::to_be_bytes
to_be_bytes(x) == BeBytes(x, 8)

RECURSIVE FoldBe(_, _)
FoldBe(bytes, acc) ==
    IF bytes = <<>> THEN acc ELSE FoldBe(Tail(bytes), acc * 256 + Head(bytes))

\* u64::from_be_bytes
from_be_bytes(bytes) == FoldBe(bytes, 0)

\* serde_json::to_vec(&PetAddressInfo): the object's fields in declaration order
to_vec(info) ==
    << <<"id", info.id>>, <<"address", info.address>>,
       <<"created_at", info.created_at>> >>

\* serde_json::from_slice::<PetAddressInfo>: Err unless all fields are there
from_slice(v) ==
    IF /\ Len(v) = 3
       /\ v[1][1] = "id"
       /\ v[2][1] = "address"
       /\ v[3][1] = "created_at"
    THEN [ok |-> TRUE, info |-> PetAddressInfo(v[1][2], v[2][2], v[3][2])]
    ELSE [ok |-> FALSE, info |-> NoInfo]

EmptyStore == [k \in {} |-> <<>>]

(***************************************************************************)
(* State                                                                   *)
(***************************************************************************)
VARIABLES
    engine,         \* "down" (not constructed), "up" (PetStorage::new returned
                    \* Ok), "io_error" / "deser_error" (new returned Err)
    address_queue,  \* PetStorage.address_queue
    queue_size,     \* PetStorage.queue_size
    counter,        \* PetStorage.counter
    db,             \* the sled tree on disk: key -> value, survives a crash
    tasks,          \* bag of spawned background tasks that have not run yet
    ckpt,           \* the task spawned by start_counter_persistence (history:
                    \* missed, the counter read at its last failed insert)
    pc,             \* position of each thread inside its current call
    local,          \* each thread's address_info local
    \* ---- history (not program state) ----
    clock,          \* chrono::Utc::now(), also the number of store calls so far
    crashes,        \* crashes so far
    clearCalls,     \* clear_all_addresses calls started in this run
    actors,         \* threads that called into the engine in this run
    recovered,      \* records loaded by new() in this run, in load order
    pushed,         \* records pushed in this run, in push order
    popped,         \* records returned by get_next_address in this run, in pop order
    cleared,        \* records drained by clear_all_addresses in this run
    written,        \* records whose persist task inserted its entry, in any run
    failed,         \* records whose persist task returned Err in this run
    storeRet,       \* per thread: the ids store_address returned in this run
    ret,            \* per thread: the result of its last completed call
    clearOverlap,   \* per thread: a store call overlapped its current clear call
    issuedPast,     \* ids issued in earlier runs
    ckptState,      \* the counter key relative to the last id issued
    crashStates,    \* the values of ckptState at the crashes so far
    prev            \* until the first call after a restart, of the run that ended
                    \* at the last crash: the records pushed,
                    \* persisted and not removed (kept), those of them with an id
                    \* of their own (unshared), the records whose persist task
                    \* had not run (pending), the clear calls
VARIABLES
    \* ---- the argument and the result of the pure functions ----
    arg,            \* the input a function is applied to
    out             \* its result

memVars == <<address_queue, queue_size, counter>>
threadVars == <<pc, local>>
runHist == <<clearCalls, actors, recovered, pushed, popped, cleared, written,
             failed, storeRet, ret, clearOverlap>>
crashHist == <<crashes, issuedPast, crashStates, arg, out>>
vars == <<engine, address_queue, queue_size, counter, db, tasks, ckpt, pc, local,
          clock, crashes, clearCalls, actors, recovered, pushed, popped, cleared,
          written, failed, storeRet, ret, clearOverlap, issuedPast, ckptState,
          crashStates, prev, arg, out>>

Range(s) == {s[i] : i \in 1..Len(s)}

\* background tasks
PersistTask(info) == [kind |-> "persist", id |-> info.id, info |-> info]
RemoveTask(id) == [kind |-> "remove", id |-> id, info |-> NoInfo]
ClearTask == [kind |-> "clear", id |-> 0, info |-> NoInfo]

spawn(task) == tasks (+) SetToBag({task})
finish(task) == tasks (-) SetToBag({task})

NoRet == [op |-> "none", some |-> FALSE, count |-> 0, qlen |-> 0,
          overlap |-> FALSE, inflight |-> FALSE]
CkptOff == [st |-> "off", current_counter |-> 0, missed |-> -1]
NoArg == <<>>
NoOut == [kind |-> "none"]
NoPrev == [kept |-> {}, unshared |-> {}, pending |-> {}, clearCalls |-> 0]

\* a store left behind by something else than this program's writes:
\* three address entries, the middle one truncated
CorruptStore ==
    LET a == PetAddressInfo(0, "aPet", 0)
        b == PetAddressInfo(1, "aPet", 0)
        c == PetAddressInfo(2, "aPet", 0)
    IN db_insert(db_insert(db_insert(db_insert(EmptyStore,
            AddressKey(0), to_vec(a)),
            AddressKey(1), SubSeq(to_vec(b), 1, 2)),
            AddressKey(2), to_vec(c)),
            CounterKey, to_be_bytes(3))

\* a store left behind by an earlier run: one record, the counter checkpointed
PopulatedStore ==
    db_insert(db_insert(EmptyStore,
        AddressKey(0), to_vec(PetAddressInfo(0, "aPet", 0))),
        CounterKey, to_be_bytes(1))

\* the process is started on a store; nothing is in memory yet
InitWith(stores, args) ==
    /\ engine = "down"
    /\ address_queue = <<>>
    /\ queue_size = 0
    /\ counter = 0
    /\ db \in stores
    /\ tasks = EmptyBag
    /\ ckpt = CkptOff
    /\ pc = [t \in Threads |-> "idle"]
    /\ local = [t \in Threads |-> NoInfo]
    /\ clock = 1
    /\ crashes = 0
    /\ clearCalls = 0
    /\ actors = {}
    /\ recovered = <<>>
    /\ pushed = <<>>
    /\ popped = <<>>
    /\ cleared = <<>>
    /\ written = {}
    /\ failed = {}
    /\ storeRet = [t \in Threads |-> <<>>]
    /\ ret = [t \in Threads |-> NoRet]
    /\ clearOverlap = [t \in Threads |-> FALSE]
    /\ issuedPast = {}
    /\ ckptState = "fresh"
    /\ crashStates = {}
    /\ prev = NoPrev
    /\ arg \in args
    /\ out = NoOut

InitOn(stores) == InitWith(stores, {NoArg})

\* the first start, on a new store or on one with a damaged entry
Init == InitOn({EmptyStore, CorruptStore})

\* a start on any of the stores
InitAnyStore == InitOn({EmptyStore, PopulatedStore, CorruptStore})

(***************************************************************************)
(* PetStorage::new: recovery                                               *)
(***************************************************************************)
load_counter_ignored(store) == 0

\* not the program: the stored counter raised above every id in the store
load_counter_reconciled(store) ==
    LET stored == IF CounterKey \in DOMAIN store
                  THEN from_be_bytes(store[CounterKey]) ELSE 0
        ids == {from_slice(store[k]).info.id + 1 :
                    k \in {x \in DOMAIN store : HasAddressPrefix(x)}}
    IN CHOOSE m \in ids \cup {stored} : \A o \in ids \cup {stored} : o <= m

\* the counter key, or 0 when it is absent
load_counter(store) ==
    IF CounterKey \in DOMAIN store THEN from_be_bytes(store[CounterKey]) ELSE 0

RECURSIVE restore_loop_skipping(_, _, _, _)
restore_loop_skipping(store, keys, q, count) ==
    IF keys = <<>> THEN [ok |-> TRUE, queue |-> q, count |-> count]
    ELSE LET r == from_slice(store[Head(keys)])
         IN IF ~r.ok THEN restore_loop_skipping(store, Tail(keys), q, count)
            ELSE restore_loop_skipping(store, Tail(keys),
                                       queue_push(q, r.info), count + 1)

RECURSIVE restore_loop(_, _, _, _)
\* the for loop over scan_prefix: each entry is deserialized and pushed;
\* the ? on a failed from_slice leaves new() with Err
restore_loop(store, keys, q, count) ==
    IF keys = <<>> THEN [ok |-> TRUE, queue |-> q, count |-> count]
    ELSE LET r == from_slice(store[Head(keys)])
         IN IF ~r.ok THEN [ok |-> FALSE, queue |-> <<>>, count |-> 0]
            ELSE restore_loop(store, Tail(keys), queue_push(q, r.info), count + 1)

\* the restore of the addresses, from an empty queue
restore_addresses(store) == restore_loop(store, scan_prefix(store), <<>>, 0)

\* new() returns Ok(storage)
NewOk ==
    /\ engine = "down"
    /\ LET r == restore_addresses(db)
       IN /\ r.ok
          /\ engine' = "up"
          /\ counter' = load_counter(db)
          /\ address_queue' = r.queue
          /\ queue_size' = r.count
          /\ recovered' = r.queue
    /\ UNCHANGED <<db, tasks, ckpt, pc, local, clock, clearCalls, actors, pushed,
                   popped, cleared, written, failed, storeRet, ret, clearOverlap,
                   ckptState>>
    /\ UNCHANGED <<crashHist, prev>>

\* new() returns Err: sled::open, db.get or the scan failed (io_error), or an
\* entry did not deserialize (deser_error)
NewErr ==
    /\ engine = "down"
    /\ \/ engine' = "io_error"
       \/ /\ ~restore_addresses(db).ok
          /\ engine' = "deser_error"
    /\ UNCHANGED <<memVars, db, tasks, ckpt, clock, ckptState>>
    /\ UNCHANGED <<threadVars, runHist, crashHist, prev>>

\* the process exits after a failed new() and is started again later
Exit ==
    /\ engine \in {"io_error", "deser_error"}
    /\ engine' = "down"
    /\ UNCHANGED <<memVars, db, tasks, ckpt, clock, ckptState>>
    /\ UNCHANGED <<threadVars, runHist, crashHist, prev>>

(***************************************************************************)
(* store_address                                                           *)
(***************************************************************************)
StoreInFlight == {t \in Threads : pc[t] \in {"store_push", "store_size"}}
PopInFlight == {t \in Threads : pc[t] \in {"get_size", "clear_size"}}
ClearInFlight == {t \in Threads : pc[t] \in {"clear_loop", "clear_size"}}

\* let id = self.next_id(); let address_info = PetAddressInfo { .. }
StoreNextId(t, address) ==
    /\ engine = "up"
    /\ pc[t] = "idle"
    /\ clock <= MaxStores
    /\ counter' = next_id(counter)
    /\ local' = [local EXCEPT ![t] = PetAddressInfo(counter, address, clock)]
    /\ pc' = [pc EXCEPT ![t] = "store_push"]
    /\ clock' = clock + 1
    /\ actors' = actors \cup {t}
    /\ clearOverlap' = [u \in Threads |-> clearOverlap[u] \/ u \in ClearInFlight]
    /\ ckptState' = "none"
    /\ UNCHANGED <<engine, address_queue, queue_size, db, tasks, ckpt, clearCalls,
                   recovered, pushed, popped, cleared, written, failed, storeRet, ret>>
    /\ prev' = NoPrev
    /\ UNCHANGED crashHist

\* self.address_queue.push(address_info.clone())
StorePush(t) ==
    /\ engine = "up"
    /\ pc[t] = "store_push"
    /\ address_queue' = queue_push(address_queue, local[t])
    /\ pushed' = Append(pushed, local[t])
    /\ pc' = [pc EXCEPT ![t] = "store_size"]
    /\ UNCHANGED <<engine, queue_size, counter, db, tasks, ckpt, local, clock,
                   clearCalls, actors, recovered, popped, cleared, written, failed,
                   storeRet, ret, clearOverlap, ckptState>>
    /\ UNCHANGED <<crashHist, prev>>

StoreFinish_writethrough(t) ==
    /\ engine = "up"
    /\ pc[t] = "store_size"
    /\ queue_size' = usize_fetch_add(queue_size)
    /\ tasks' = spawn(PersistTask(local[t]))
    /\ db' = db_insert(db, AddressKey(local[t].id), to_vec(local[t]))
    /\ storeRet' = [storeRet EXCEPT ![t] = Append(@, local[t].id)]
    /\ ret' = [ret EXCEPT ![t] = [NoRet EXCEPT !.op = "store"]]
    /\ pc' = [pc EXCEPT ![t] = "idle"]
    /\ local' = [local EXCEPT ![t] = NoInfo]
    /\ UNCHANGED <<engine, address_queue, counter, ckpt, clock, clearCalls,
                   actors, recovered, pushed, popped, cleared, written, failed,
                   clearOverlap, ckptState>>
    /\ UNCHANGED <<crashHist, prev>>

\* self.queue_size.fetch_add(1); tokio::spawn(persist_address_async); Ok(id)
StoreFinish(t) ==
    /\ engine = "up"
    /\ pc[t] = "store_size"
    /\ queue_size' = usize_fetch_add(queue_size)
    /\ tasks' = spawn(PersistTask(local[t]))
    /\ storeRet' = [storeRet EXCEPT ![t] = Append(@, local[t].id)]
    /\ ret' = [ret EXCEPT ![t] = [NoRet EXCEPT !.op = "store"]]
    /\ pc' = [pc EXCEPT ![t] = "idle"]
    /\ local' = [local EXCEPT ![t] = NoInfo]
    /\ UNCHANGED <<engine, address_queue, counter, db, ckpt, clock, clearCalls,
                   actors, recovered, pushed, popped, cleared, written, failed,
                   clearOverlap, ckptState>>
    /\ UNCHANGED <<crashHist, prev>>

(***************************************************************************)
(* get_next_address                                                        *)
(***************************************************************************)
\* self.address_queue.pop() returned Some(address_info)
GetPop(t) ==
    /\ engine = "up"
    /\ pc[t] = "idle"
    /\ address_queue # <<>>
    /\ local' = [local EXCEPT ![t] = queue_pop_item(address_queue)]
    /\ address_queue' = queue_pop_rest(address_queue)
    /\ popped' = Append(popped, queue_pop_item(address_queue))
    /\ pc' = [pc EXCEPT ![t] = "get_size"]
    /\ actors' = actors \cup {t}
    /\ UNCHANGED <<engine, queue_size, counter, db, tasks, ckpt, clock, clearCalls,
                   recovered, pushed, cleared, written, failed, storeRet, ret,
                   clearOverlap, ckptState>>
    /\ prev' = NoPrev
    /\ UNCHANGED crashHist

\* self.address_queue.pop() returned None: Ok(None)
GetNone(t) ==
    /\ engine = "up"
    /\ pc[t] = "idle"
    /\ address_queue = <<>>
    /\ ret' = [ret EXCEPT ![t] = [NoRet EXCEPT !.op = "get"]]
    /\ actors' = actors \cup {t}
    /\ UNCHANGED <<engine, memVars, db, tasks, ckpt, threadVars, clock, clearCalls,
                   recovered, pushed, popped, cleared, written, failed, storeRet,
                   clearOverlap, ckptState>>
    /\ prev' = NoPrev
    /\ UNCHANGED crashHist

\* self.queue_size.fetch_sub(1); tokio::spawn(remove_address_async);
\* Ok(Some(address_info))
GetFinish(t) ==
    /\ engine = "up"
    /\ pc[t] = "get_size"
    /\ queue_size' = usize_fetch_sub(queue_size)
    /\ tasks' = spawn(RemoveTask(local[t].id))
    /\ ret' = [ret EXCEPT ![t] = [NoRet EXCEPT !.op = "get", !.some = TRUE]]
    /\ pc' = [pc EXCEPT ![t] = "idle"]
    /\ local' = [local EXCEPT ![t] = NoInfo]
    /\ UNCHANGED <<engine, address_queue, counter, db, ckpt, clock, clearCalls,
                   actors, recovered, pushed, popped, cleared, written, failed, storeRet,
                   clearOverlap, ckptState>>
    /\ UNCHANGED <<crashHist, prev>>

\* count_addresses: self.queue_size.load()
count_addresses == queue_size

(***************************************************************************)
(* clear_all_addresses                                                     *)
(***************************************************************************)
\* history kept when thread t enters or continues its clear call
ClearEnter(t) ==
    IF pc[t] = "idle"
    THEN /\ clearCalls < MaxClears
         /\ clearCalls' = clearCalls + 1
         /\ actors' = actors \cup {t}
         /\ clearOverlap' = [clearOverlap EXCEPT ![t] = StoreInFlight # {}]
    ELSE /\ pc[t] = "clear_loop"
         /\ UNCHANGED <<clearCalls, actors, clearOverlap>>

\* while self.address_queue.pop().is_some(): the pop returned Some
ClearPop(t) ==
    /\ engine = "up"
    /\ ClearEnter(t)
    /\ address_queue # <<>>
    /\ address_queue' = queue_pop_rest(address_queue)
    /\ cleared' = Append(cleared, queue_pop_item(address_queue))
    /\ pc' = [pc EXCEPT ![t] = "clear_size"]
    /\ UNCHANGED <<engine, queue_size, counter, db, tasks, ckpt, local, clock,
                   recovered, pushed, popped, written, failed, storeRet, ret, ckptState>>
    /\ prev' = NoPrev
    /\ UNCHANGED crashHist

\* the loop body: self.queue_size.fetch_sub(1)
ClearDec(t) ==
    /\ engine = "up"
    /\ pc[t] = "clear_size"
    /\ queue_size' = usize_fetch_sub(queue_size)
    /\ pc' = [pc EXCEPT ![t] = "clear_loop"]
    /\ UNCHANGED <<engine, address_queue, counter, db, tasks, ckpt, local, clock,
                   ckptState>>
    /\ UNCHANGED <<runHist, crashHist, prev>>

\* the pop returned None: tokio::spawn(clear_db_async); Ok(())
ClearReturn(t) ==
    /\ engine = "up"
    /\ ClearEnter(t)
    /\ address_queue = <<>>
    /\ tasks' = spawn(ClearTask)
    /\ ret' = [ret EXCEPT ![t] =
                 [NoRet EXCEPT !.op = "clear",
                               !.count = count_addresses,
                               !.qlen = Len(address_queue),
                               !.overlap = clearOverlap'[t],
                               !.inflight = (PopInFlight \ {t}) # {}]]
    /\ pc' = [pc EXCEPT ![t] = "idle"]
    /\ UNCHANGED <<engine, memVars, db, ckpt, local, clock, recovered, pushed,
                   popped, cleared, written, failed, storeRet, ckptState>>
    /\ prev' = NoPrev
    /\ UNCHANGED crashHist

(***************************************************************************)
(* Background tasks.  Each runs its critical section under db.write().     *)
(***************************************************************************)
Pending(kind) == {task \in BagToSet(tasks) : task.kind = kind}

\* persist_address_async returned Ok
PersistOk(task) ==
    /\ engine = "up"
    /\ task \in Pending("persist")
    /\ db' = db_insert(db, AddressKey(task.info.id), to_vec(task.info))
    /\ tasks' = finish(task)
    /\ written' = written \cup {task.info}
    /\ UNCHANGED <<engine, memVars, ckpt, threadVars, clock, clearCalls, actors,
                   recovered, pushed, popped, cleared, failed, storeRet, ret,
                   clearOverlap, ckptState>>
    /\ UNCHANGED <<crashHist, prev>>

\* not the program: the task that returned Err stays scheduled and runs again
TaskErr_retrying(task) ==
    /\ engine = "up"
    /\ task \in BagToSet(tasks)
    /\ failed' = IF task.kind = "persist" THEN failed \cup {task.info} ELSE failed
    /\ UNCHANGED <<engine, memVars, db, tasks, ckpt, threadVars, clock, ckptState>>
    /\ UNCHANGED <<clearCalls, actors, recovered, pushed, popped, cleared,
                   written, storeRet, ret, clearOverlap>>
    /\ UNCHANGED <<crashHist, prev>>

\* a background task returned Err before it changed the store:
\* the closure logs a warning and the task is gone
TaskErr(task) ==
    /\ engine = "up"
    /\ task \in BagToSet(tasks)
    /\ tasks' = finish(task)
    /\ failed' = IF task.kind = "persist" THEN failed \cup {task.info} ELSE failed
    /\ UNCHANGED <<engine, memVars, db, ckpt, threadVars, clock, ckptState>>
    /\ UNCHANGED <<clearCalls, actors, recovered, pushed, popped, cleared,
                   written, storeRet, ret, clearOverlap>>
    /\ UNCHANGED <<crashHist, prev>>

\* not the program: the remove task erases every address entry
RemoveOk_prefix(task) ==
    /\ engine = "up"
    /\ task \in Pending("remove")
    /\ db' = [k \in {x \in DOMAIN db : ~HasAddressPrefix(x)} |-> db[k]]
    /\ tasks' = finish(task)
    /\ UNCHANGED <<engine, memVars, ckpt, threadVars, clock, ckptState>>
    /\ UNCHANGED <<runHist, crashHist, prev>>

\* remove_address_async returned Ok
RemoveOk(task) ==
    /\ engine = "up"
    /\ task \in Pending("remove")
    /\ db' = db_remove(db, AddressKey(task.id))
    /\ tasks' = finish(task)
    /\ UNCHANGED <<engine, memVars, ckpt, threadVars, clock, ckptState>>
    /\ UNCHANGED <<runHist, crashHist, prev>>

RECURSIVE remove_keys(_, _)
\* for key in keys { db.remove(&key)?; }
remove_keys(store, keys) ==
    IF keys = <<>> THEN store
    ELSE remove_keys(db_remove(store, Head(keys)), Tail(keys))

\* clear_db_async removed the first n of the scanned keys: all of them and Ok,
\* or fewer and the Err of the next db.remove (n > 0, else it is TaskErr)
ClearDb(task, n) ==
    /\ engine = "up"
    /\ task \in Pending("clear")
    /\ LET keys == scan_prefix(db)
       IN /\ n \in 0..Len(keys)
          /\ n > 0 \/ keys = <<>>
          /\ db' = remove_keys(db, SubSeq(keys, 1, n))
    /\ tasks' = finish(task)
    /\ UNCHANGED <<engine, memVars, ckpt, threadVars, clock, ckptState>>
    /\ UNCHANGED <<runHist, crashHist, prev>>

(***************************************************************************)
(* start_counter_persistence                                               *)
(***************************************************************************)
\* tokio::spawn of the loop; called once per engine instance
StartCounterPersistence ==
    /\ engine = "up"
    /\ ckpt.st = "off"
    /\ ckpt' = [ckpt EXCEPT !.st = "sleep"]
    /\ UNCHANGED <<engine, memVars, db, tasks, threadVars, clock, ckptState>>
    /\ UNCHANGED <<runHist, crashHist, prev>>

\* sleep(10s) elapsed; let current_counter = counter.load()
CkptLoad ==
    /\ engine = "up"
    /\ ckpt.st = "sleep"
    /\ ckpt' = [ckpt EXCEPT !.st = "loaded", !.current_counter = counter]
    /\ UNCHANGED <<engine, memVars, db, tasks, threadVars, clock, ckptState>>
    /\ UNCHANGED <<runHist, crashHist, prev>>

\* db.insert(b"counter", &current_counter.to_be_bytes()) returned Ok
CkptInsertOk ==
    /\ engine = "up"
    /\ ckpt.st = "loaded"
    /\ db' = db_insert(db, CounterKey, to_be_bytes(ckpt.current_counter))
    /\ ckpt' = [ckpt EXCEPT !.st = "sleep", !.current_counter = 0]
    /\ ckptState' = IF ckpt.current_counter = counter THEN "fresh" ELSE "stale"
    /\ UNCHANGED <<engine, memVars, tasks, threadVars, clock>>
    /\ UNCHANGED <<runHist, crashHist, prev>>

\* not the program: the loop ends at the first failed insert
CkptInsertErr_stopping ==
    /\ engine = "up"
    /\ ckpt.st = "loaded"
    /\ ckpt' = [st |-> "stopped", current_counter |-> 0,
                missed |-> ckpt.current_counter]
    /\ UNCHANGED <<engine, memVars, db, tasks, threadVars, clock, ckptState>>
    /\ UNCHANGED <<runHist, crashHist, prev>>

\* the insert returned Err: a warning, and the loop goes on
CkptInsertErr ==
    /\ engine = "up"
    /\ ckpt.st = "loaded"
    /\ ckpt' = [st |-> "sleep", current_counter |-> 0,
                missed |-> ckpt.current_counter]
    /\ UNCHANGED <<engine, memVars, db, tasks, threadVars, clock, ckptState>>
    /\ UNCHANGED <<runHist, crashHist, prev>>

(***************************************************************************)
(* Crash: the process dies; only the store survives                        *)
(***************************************************************************)
\* records of this run that were pushed, whose persist task inserted their
\* entry, and that no pop or drain took out of the queue
PersistedAndKept ==
    (Range(pushed) \cap written) \ (Range(popped) \cup Range(cleared))

\* no other record that was in the queue in this run has the id of r
IdUnshared(r) ==
    \A o \in Range(recovered) \cup Range(pushed) : o.id = r.id => o = r

IssuedNow ==
    UNION {Range(storeRet[t]) : t \in Threads}
        \cup {local[t].id : t \in StoreInFlight}

Crash ==
    /\ engine = "up"
    /\ crashes < MaxCrashes
    /\ engine' = "down"
    /\ address_queue' = <<>>
    /\ queue_size' = 0
    /\ counter' = 0
    /\ tasks' = EmptyBag
    /\ ckpt' = CkptOff
    /\ pc' = [t \in Threads |-> "idle"]
    /\ local' = [t \in Threads |-> NoInfo]
    /\ crashes' = crashes + 1
    /\ issuedPast' = issuedPast \cup IssuedNow
    /\ crashStates' = crashStates \cup {ckptState}
    /\ prev' = [kept |-> PersistedAndKept,
                unshared |-> {r \in PersistedAndKept : IdUnshared(r)},
                pending |-> {task.info : task \in Pending("persist")},
                clearCalls |-> clearCalls]
    /\ clearCalls' = 0
    /\ actors' = {}
    /\ recovered' = <<>>
    /\ pushed' = <<>>
    /\ popped' = <<>>
    /\ cleared' = <<>>
    /\ failed' = {}
    /\ storeRet' = [t \in Threads |-> <<>>]
    /\ ret' = [t \in Threads |-> NoRet]
    /\ clearOverlap' = [t \in Threads |-> FALSE]
    /\ UNCHANGED <<db, clock, ckptState, written, arg, out>>

(***************************************************************************)
(* Specification                                                           *)
(***************************************************************************)
Next ==
    \/ NewOk
    \/ NewErr
    \/ Exit
    \/ \E t \in Threads, address \in Addresses : StoreNextId(t, address)
    \/ \E t \in Threads : StorePush(t)
    \/ \E t \in Threads : StoreFinish(t)
    \/ \E t \in Threads : GetPop(t)
    \/ \E t \in Threads : GetNone(t)
    \/ \E t \in Threads : GetFinish(t)
    \/ \E t \in Threads : ClearPop(t)
    \/ \E t \in Threads : ClearDec(t)
    \/ \E t \in Threads : ClearReturn(t)
    \/ \E task \in BagToSet(tasks) : PersistOk(task)
    \/ \E task \in BagToSet(tasks) : TaskErr(task)
    \/ \E task \in BagToSet(tasks) : RemoveOk(task)
    \/ \E task \in BagToSet(tasks), n \in 0..MaxStores : ClearDb(task, n)
    \/ StartCounterPersistence
    \/ CkptLoad
    \/ CkptInsertOk
    \/ CkptInsertErr
    \/ Crash

Spec == Init /\ [][Next]_vars

\* One run of the process seen from memory: the calls of all threads, at the
\* granularity of their atomic accesses.  Background tasks are spawned and not
\* yet run: they touch the store only, never the queue or the atomics.
NextQueue ==
    \/ NewOk
    \/ NewErr
    \/ Exit
    \/ \E t \in Threads, address \in Addresses : StoreNextId(t, address)
    \/ \E t \in Threads : StorePush(t)
    \/ \E t \in Threads : StoreFinish(t)
    \/ \E t \in Threads : GetPop(t)
    \/ \E t \in Threads : GetNone(t)
    \/ \E t \in Threads : GetFinish(t)
    \/ \E t \in Threads : ClearPop(t)
    \/ \E t \in Threads : ClearDec(t)
    \/ \E t \in Threads : ClearReturn(t)

SpecQueue == InitAnyStore /\ [][NextQueue]_vars

\* The mirror in the store across crashes: one calling thread, the background
\* tasks in any order and with any outcome, crash and recovery.
Main == CHOOSE t \in Threads : TRUE

NextCrash ==
    \/ NewOk
    \/ NewErr
    \/ Exit
    \/ \E address \in Addresses : StoreNextId(Main, address)
    \/ StorePush(Main)
    \/ StoreFinish(Main)
    \/ GetPop(Main)
    \/ GetNone(Main)
    \/ GetFinish(Main)
    \/ ClearPop(Main)
    \/ ClearDec(Main)
    \/ ClearReturn(Main)
    \/ \E task \in BagToSet(tasks) : PersistOk(task)
    \/ \E task \in BagToSet(tasks) : TaskErr(task)
    \/ \E task \in BagToSet(tasks) : RemoveOk(task)
    \/ \E task \in BagToSet(tasks), n \in 0..MaxStores : ClearDb(task, n)
    \/ Crash

SpecCrash == Init /\ [][NextCrash]_vars

\* the same on a store that only this program has written
SpecOwnStore == InitOn({EmptyStore}) /\ [][NextCrash]_vars

\* one run from a new store with no crash, no clear_all_addresses call and no
\* failing task
NextMirror ==
    \/ NewOk
    \/ \E address \in Addresses : StoreNextId(Main, address)
    \/ StorePush(Main)
    \/ StoreFinish(Main)
    \/ GetPop(Main)
    \/ GetNone(Main)
    \/ GetFinish(Main)
    \/ \E task \in BagToSet(tasks) : PersistOk(task)
    \/ \E task \in BagToSet(tasks) : RemoveOk(task)

SpecMirror == InitOn({EmptyStore}) /\ [][NextMirror]_vars

\* The id counter across crashes: one calling thread, the checkpoint loop,
\* crash and recovery.
NextCounter ==
    \/ NewOk
    \/ NewErr
    \/ Exit
    \/ \E address \in Addresses : StoreNextId(Main, address)
    \/ StorePush(Main)
    \/ StoreFinish(Main)
    \/ StartCounterPersistence
    \/ CkptLoad
    \/ CkptInsertOk
    \/ CkptInsertErr
    \/ Crash

SpecCounter == Init /\ [][NextCounter]_vars

\* one run of the process with the checkpoint task: the interval keeps ticking
\* and the store accepts an insert again and again
NextCheckpoint ==
    \/ NewOk
    \/ NewErr
    \/ Exit
    \/ \E address \in Addresses : StoreNextId(Main, address)
    \/ StorePush(Main)
    \/ StoreFinish(Main)
    \/ StartCounterPersistence
    \/ CkptLoad
    \/ CkptInsertOk
    \/ CkptInsertErr

SpecCheckpoint ==
    /\ Init
    /\ [][NextCheckpoint]_vars
    /\ WF_vars(CkptLoad)
    /\ SF_vars(CkptInsertOk)

TypeOK ==
    /\ engine \in {"down", "up", "io_error", "deser_error"}
    /\ queue_size \in 0..(UsizeModulus - 1)
    /\ counter \in 0..(MaxStores + 1)
    /\ clock \in 1..(MaxStores + 1)
    /\ crashes \in 0..MaxCrashes

(***************************************************************************)
(* Properties                                                              *)
(***************************************************************************)
AllIdle == \A t \in Threads : pc[t] = "idle"

RECURSIVE SumLen(_, _)
SumLen(f, S) ==
    IF S = {} THEN 0
    ELSE LET t == CHOOSE u \in S : TRUE IN Len(f[t]) + SumLen(f, S \ {t})

\* store_address calls that returned in this run
StoresReturned == SumLen(storeRet, Threads)

NoDuplicates(s) == \A i, j \in 1..Len(s) : i # j => s[i] # s[j]

\* C1: with a single calling thread, an initially empty queue and no clear, the
\* k-th record that get_next_address returns is the record of the k-th
\* store_address call, and get_next_address returns None exactly when every
\* pushed record has been returned.
C1_SingleThreadFifo ==
    (Cardinality(actors) <= 1 /\ clearCalls = 0 /\ recovered = <<>>) =>
        /\ Len(popped) <= Len(pushed)
        /\ \A k \in 1..Len(popped) : popped[k] = pushed[k]
        /\ \A t \in Threads :
              (pc[t] = "idle" /\ ret[t].op = "get") =>
                  /\ ~ret[t].some => Len(popped) = Len(pushed)
                  /\ ret[t].some => Len(popped) - 1 < Len(pushed)

C1_Witness ==
    /\ Cardinality(actors) = 1 /\ clearCalls = 0 /\ recovered = <<>>
    /\ Len(pushed) = 3 /\ Len(popped) = 3
    /\ popped[1].id # popped[2].id
    /\ \E t \in Threads : pc[t] = "idle" /\ ret[t].op = "get" /\ ~ret[t].some

\* C2: the ids store_address returns to one thread in one run are strictly
\* increasing, whatever the other threads do.
C2_IdsIncreasePerThread ==
    \A t \in Threads : \A i, j \in 1..Len(storeRet[t]) :
        i < j => storeRet[t][i] < storeRet[t][j]

C2_Witness ==
    \E t, u \in Threads :
        /\ t # u
        /\ Len(storeRet[t]) = 2
        /\ Len(storeRet[u]) = 1
        /\ storeRet[t][1] < storeRet[u][1]
        /\ storeRet[u][1] < storeRet[t][2]

\* C3: in one run no two store_address calls, of any threads, return the same id.
C3_IdsUniqueInRun ==
    Cardinality(UNION {Range(storeRet[t]) : t \in Threads}) = StoresReturned

C3_Witness ==
    /\ \A t \in Threads : storeRet[t] # <<>>
    /\ StoresReturned = 3
    /\ \E t \in Threads : storeRet[t] = <<1>>

\* C4: after concurrent store_address calls have all returned, count_addresses
\* is their number; the records get_next_address returns are pushed records,
\* each returned once; once the queue is drained, every pushed record has been
\* returned.  (Fresh queue, no clear.)
C4_NoneLostNoneTwice ==
    (clearCalls = 0 /\ recovered = <<>>) =>
        /\ (AllIdle /\ popped = <<>>) => count_addresses = StoresReturned
        /\ NoDuplicates(popped)
        /\ NoDuplicates([k \in 1..Len(popped) |-> popped[k].id])
        /\ Range(popped) \subseteq Range(pushed)
        /\ (AllIdle /\ address_queue = <<>>) =>
              /\ Range(popped) = Range(pushed)
              /\ Len(popped) = StoresReturned

C4_Witness ==
    /\ clearCalls = 0 /\ recovered = <<>>
    /\ AllIdle /\ address_queue = <<>>
    /\ \A t \in Threads : storeRet[t] # <<>>
    /\ \A t \in Threads : ret[t].op = "get"
    /\ \E t \in Threads : ret[t].some
    /\ Len(popped) = 3

\* C5: when no call is in progress, count_addresses is (loaded at recovery) +
\* (store calls completed) - (records removed by get_next_address and clear),
\* and that is the length of the queue.
C5_CountSettles ==
    AllIdle =>
        /\ count_addresses
             = Len(recovered) + StoresReturned - Len(popped) - Len(cleared)
        /\ count_addresses = Len(address_queue)

C5_Witness ==
    /\ AllIdle
    /\ Len(recovered) = 1
    /\ StoresReturned = 3
    /\ Len(popped) = 1
    /\ Len(cleared) = 2
    /\ count_addresses = 1

\* C6 as stated: when clear_all_addresses returns and no store_address call
\* overlapped it, count_addresses is 0 and the queue is empty.
C6_ClearLeavesZero ==
    \A t \in Threads :
        (ret[t].op = "clear" /\ ~ret[t].overlap) =>
            ret[t].count = 0 /\ ret[t].qlen = 0

\* C6 amended: ... and no get_next_address or other clear_all_addresses call is
\* between its pop and its fetch_sub at that moment.
C6_ClearLeavesZeroQuiet ==
    \A t \in Threads :
        (ret[t].op = "clear" /\ ~ret[t].overlap /\ ~ret[t].inflight) =>
            ret[t].count = 0 /\ ret[t].qlen = 0

C6_Witness ==
    \E t \in Threads :
        /\ ret[t].op = "clear" /\ ~ret[t].overlap /\ ~ret[t].inflight
        /\ Len(cleared) = 2
        /\ BagCardinality(tasks) = 3
        /\ pc[t] = "idle"
        /\ count_addresses = 0

\* C7 as stated (scenario B): a record that was pushed, whose persist task
\* completed and that was not popped or drained is in the queue recovered
\* after a crash, with the same id and payload.
C7_PersistedRecordRecovered ==
    engine = "up" => \A r \in prev.kept : r \in Range(recovered)

\* C7 amended: ... provided clear_all_addresses was not called in that run and
\* no other record that was in the queue in that run had the same id.
C7_PersistedRecordRecoveredNoClear ==
    (engine = "up" /\ prev.clearCalls = 0) =>
        \A r \in prev.unshared : r \in Range(recovered)

C7_Witness ==
    /\ engine = "up" /\ crashes = 2 /\ prev.clearCalls = 0
    /\ \E r \in prev.unshared :
          /\ r.id = 1
          /\ \E i \in 1..Len(recovered) :
                /\ recovered[i].id = r.id
                /\ recovered[i].address = r.address
                /\ recovered[i].created_at = r.created_at
    /\ prev.kept # prev.unshared

\* C8 (scenario A): a record whose store_address call returned and whose
\* persist task had not run when the process crashed is not in the queue
\* recovered afterwards.
C8_UnpersistedRecordLost ==
    engine = "up" => \A r \in prev.pending : r \notin Range(recovered)

C8_Witness ==
    /\ engine = "up" /\ crashes >= 1
    /\ recovered # <<>>
    /\ \E r \in prev.pending : r.id = 1

\* keys of address entries that do not deserialize
BadEntries(store) ==
    {k \in DOMAIN store : HasAddressPrefix(k) /\ ~from_slice(store[k]).ok}
GoodEntries(store) ==
    {k \in DOMAIN store : HasAddressPrefix(k) /\ from_slice(store[k]).ok}

ReturnedNow == UNION {Range(storeRet[t]) : t \in Threads}

\* C10 as stated: if at every stop a counter checkpoint had been written after
\* the last id was issued, no id returned after a restart was issued in an
\* earlier run.
C10_NoReuseAfterCheckpoint ==
    "none" \notin crashStates => ReturnedNow \cap issuedPast = {}

\* C10 amended: ... if at every stop the last checkpoint written had read the
\* counter after the last id was issued ...
C10_NoReuseAfterFreshCheckpoint ==
    crashStates \subseteq {"fresh"} => ReturnedNow \cap issuedPast = {}

C10_Witness ==
    /\ crashes = 2
    /\ crashStates = {"fresh"}
    /\ Cardinality(issuedPast) = 2
    /\ ReturnedNow # {}
    /\ db[CounterKey] = to_be_bytes(2)

\* a background task ended in this step: the bag of tasks lost one
TaskEnded == engine' = "up" /\ BagCardinality(tasks') < BagCardinality(tasks)

\* C11: a background task that ends, failed or not, changes neither the queue,
\* the approximate size, the id counter, nor any thread's position or last
\* result; a failed persist leaves the store as it was; and a record whose
\* persist task returned Err is not written by any later task: its task is not
\* scheduled again and no entry of the store holds the record.
C11_FailedTaskDropped ==
    /\ [][TaskEnded =>
            /\ memVars' = memVars
            /\ threadVars' = threadVars
            /\ ret' = ret /\ storeRet' = storeRet]_vars
    /\ [][(engine' = "up" /\ failed' # failed) => db' = db]_vars
    /\ [](\A info \in failed :
            /\ PersistTask(info) \notin BagToSet(tasks)
            /\ info \notin written
            /\ \A k \in DOMAIN db : db[k] # to_vec(info))

\* the persist task of a record failed and everything else finished: the record
\* is in the queue, was counted, and a later record was written
C11_Witness ==
    /\ engine = "up" /\ AllIdle /\ tasks = EmptyBag
    /\ \E info \in failed :
          /\ info \in Range(address_queue)
          /\ queue_size = Len(address_queue)
          /\ \E w \in written : w.id > info.id /\ AddressKey(w.id) \in DOMAIN db

(***************************************************************************)
(* PetAddress::is_valid_pet_suffix                                         *)
(***************************************************************************)
\* a &str is a sequence of chars; a char takes one byte in UTF-8 or more
NonAscii == "U+00E9"
Chars == {"a", "z", "A", "P", "e", "t", "1", "!", NonAscii}
len_utf8(c) == IF c = NonAscii THEN 2 ELSE 1
is_ascii_lowercase(c) == c \in {"a", "z"}

RECURSIVE str_len(_)
\* str::len: the length in bytes
str_len(s) == IF s = <<>> THEN 0 ELSE len_utf8(Head(s)) + str_len(Tail(s))

\* the byte offset n is the start of a char of s, or its end
is_char_boundary(s, n) == \E k \in 0..Len(s) : str_len(SubSeq(s, 1, k)) = n

\* &s[n..], for n a char boundary
str_slice_from(s, n) ==
    LET k == CHOOSE j \in 0..Len(s) : str_len(SubSeq(s, 1, j)) = n
    IN SubSeq(s, k + 1, Len(s))

ends_with(s, pat) ==
    /\ Len(s) >= Len(pat)
    /\ SubSeq(s, Len(s) - Len(pat) + 1, Len(s)) = pat

\* "true", "false", or "panic" where the slice index is inside a char
is_valid_pet_suffix(address) ==
    IF str_len(address) < 4 THEN "false"
    ELSE IF ~is_char_boundary(address, str_len(address) - 4) THEN "panic"
    ELSE LET suffix == str_slice_from(address, str_len(address) - 4)
         IN IF ~ends_with(suffix, <<"P", "e", "t">>) THEN "false"
            ELSE IF is_ascii_lowercase(Head(suffix)) THEN "true"
            ELSE "false"

StringsUpTo(n) == UNION {[1..k -> Chars] : k \in 0..n}

\* the candidate address is checked
Validate ==
    /\ out = NoOut
    /\ out' = [kind |-> "valid", res |-> is_valid_pet_suffix(arg)]
    /\ UNCHANGED <<engine, memVars, db, tasks, ckpt, threadVars, clock, ckptState>>
    /\ UNCHANGED <<runHist, crashes, issuedPast, crashStates, arg, prev>>

SpecSuffix == InitWith({EmptyStore}, StringsUpTo(MaxLen)) /\ [][Validate]_vars

U64Samples ==
    {<<0>>} \cup {<<lead>> \o [i \in 1..(n - 1) |-> fill] :
                    lead \in {1, 9}, fill \in {0, 9}, n \in 1..MaxDigits}

\* a < b for two ids given by their digits
DigitsLess(a, b) ==
    \/ Len(a) < Len(b)
    \/ /\ Len(a) = Len(b)
       /\ \E i \in 1..Len(a) :
             /\ a[i] < b[i]
             /\ \A j \in 1..(i - 1) : a[j] = b[j]

\* the store after persist_address_async ran for a record of each of the ids
StoreOf(ids) ==
    LET a == ids[1]
        b == ids[2]
    IN db_insert(db_insert(EmptyStore,
            KeyOfDigits(a), to_vec(PetAddressInfo(a, "aPet", 0))),
            KeyOfDigits(b), to_vec(PetAddressInfo(b, "aPet", 0)))

\* the keys of the two ids are formatted
FormatKeys ==
    /\ out = NoOut
    /\ out' = [kind |-> "keys", a |-> KeyOfDigits(arg[1]), b |-> KeyOfDigits(arg[2])]
    /\ UNCHANGED <<engine, memVars, db, tasks, ckpt, threadVars, clock, ckptState>>
    /\ UNCHANGED <<runHist, crashes, issuedPast, crashStates, arg, prev>>

\* new() restores the queue from the store that holds the two records
RestoreFromStore ==
    /\ out = NoOut
    /\ out' = [kind |-> "restore", store |-> StoreOf(arg),
               res |-> restore_addresses(StoreOf(arg))]
    /\ UNCHANGED <<engine, memVars, db, tasks, ckpt, threadVars, clock, ckptState>>
    /\ UNCHANGED <<runHist, crashes, issuedPast, crashStates, arg, prev>>

NextKeys ==
    \/ FormatKeys
    \/ RestoreFromStore

SpecKeys == InitWith({EmptyStore}, U64Samples \X U64Samples) /\ [][NextKeys]_vars

\* C13: after recovery on a store whose entries all deserialize, the queue holds
\* one record per address key, the count is the number of keys, and the records
\* are in ascending id order from the front (the order get_next_address
\* returns them in).
C13_RecoveredInIdOrder ==
    out.kind = "restore" =>
        LET keys == {k \in DOMAIN out.store : HasAddressPrefix(k)}
            q == out.res.queue
        IN /\ out.res.ok
           /\ Len(q) = Cardinality(keys)
           /\ \A k \in keys : \E i \in 1..Len(q) : to_vec(q[i]) = out.store[k]
           /\ out.res.count = Cardinality(keys)
           /\ \A i, j \in 1..Len(q) : i < j => DigitsLess(q[i].id, q[j].id)

\* C14: the key of an id is "address:" and the id in KeyWidth decimal digits,
\* zero-padded, and for u64 ids a < b the key of a is before the key of b in
\* byte order.
C14_KeyOrderIsIdOrder ==
    out.kind = "keys" =>
        /\ out.a[1] = AddressPrefix
        /\ Len(out.a) = 1 + KeyWidth
        /\ DigitsLess(arg[1], arg[2]) => KeyLess(out.a, out.b)

\* C15: new() seeds the id counter with the value under the counter key, 0 when
\* the key is absent, whatever the ids of the address entries it scans.
C15_CounterSeededFromKeyOnly ==
    [][(engine = "down" /\ engine' = "up") =>
          counter' = IF CounterKey \in DOMAIN db
                     THEN from_be_bytes(db[CounterKey]) ELSE 0]_vars

\* after a restart, store_address returned the id of a record that new() had
\* loaded into the queue
C15_Witness ==
    /\ engine = "up" /\ crashes > 0
    /\ \E t \in Threads : \E i \in 1..Len(storeRet[t]) :
          \E r \in Range(recovered) :
              /\ r.id = storeRet[t][i]
              /\ AddressKey(r.id) \in DOMAIN db
              /\ CounterKey \notin DOMAIN db

\* C16: on a store only the program writes, every address entry is the record
\* of a store_address call, under the key of its id, and the record's persist
\* task has inserted it (in this run or an earlier one); no step of a
\* foreground call changes the store.
C16_EntryImpliesWritten ==
    /\ [](\A k \in DOMAIN db : HasAddressPrefix(k) =>
            LET r == from_slice(db[k])
            IN /\ r.ok
               /\ r.info \in written
               /\ r.info.created_at \in 1..(clock - 1)
               /\ r.info.address \in Addresses
               /\ k = AddressKey(r.info.id))
    /\ [][pc' # pc => db' = db]_vars

\* store_address has returned, its record is in the queue, and the store has no
\* entry for it while the persist task is still to run
C16_Witness ==
    /\ engine = "up" /\ AllIdle
    /\ \E r \in Range(address_queue) :
          /\ r \in Range(pushed)
          /\ PersistTask(r) \in BagToSet(tasks)
          /\ AddressKey(r.id) \notin DOMAIN db
    /\ \E k \in DOMAIN db : HasAddressPrefix(k)

\* the value under the counter key, 0 when the key is absent
StoredCounter ==
    IF CounterKey \in DOMAIN db THEN from_be_bytes(db[CounterKey]) ELSE 0

\* C17: while the engine runs the stored counter is at most the counter in
\* memory; and after an insert of the counter failed, having read the value v,
\* the counter key eventually holds a value that is at least v (and, by the
\* first part, one the counter in memory has held).
C17_CheckpointRetried ==
    /\ [](engine = "up" => StoredCounter <= counter)
    /\ \A v \in 0..(MaxStores + 1) :
          (ckpt.missed = v) ~>
              (CounterKey \in DOMAIN db /\ v <= StoredCounter /\ StoredCounter <= counter)

\* an insert failed, ids were issued after it, and a later tick wrote a value
\* above the one the failed tick had read
C17_Witness ==
    /\ engine = "up"
    /\ ckpt.missed >= 1
    /\ CounterKey \in DOMAIN db
    /\ StoredCounter > ckpt.missed
    /\ StoredCounter = counter

\* the record was pushed in this run, its persist task inserted its entry, it
\* is in the queue, and the store has no entry under its key
InQueueErased(r) ==
    /\ r \in Range(pushed) \cap written
    /\ r \in Range(address_queue)
    /\ AddressKey(r.id) \notin DOMAIN db

\* the record was drained by clear_all_addresses, and the store holds its entry
DrainedStillStored(r) ==
    /\ r \in Range(cleared)
    /\ r \notin Range(address_queue)
    /\ AddressKey(r.id) \in DOMAIN db
    /\ db[AddressKey(r.id)] = to_vec(r)

\* C18: the entry of a record that is in the queue, and shares its id with no
\* other, is erased after its write only in a run with a clear_all_addresses
\* call; and the race is reachable both ways (the witness): one record in the
\* queue with its entry written and then erased by the clear task, another
\* drained by the clear call with its entry written after the clear task ran.
C18_ErasedOnlyByClear ==
    \A r \in Range(address_queue) :
        (engine = "up" /\ InQueueErased(r) /\ IdUnshared(r)) => clearCalls >= 1

C18_Witness ==
    /\ engine = "up" /\ AllIdle /\ tasks = EmptyBag /\ failed = {}
    /\ crashes = 0 /\ clearCalls = 1
    /\ \E r \in Range(address_queue), d \in Range(cleared) :
          /\ InQueueErased(r)
          /\ DrainedStillStored(d)
          /\ d.id < r.id

\* the records of the address entries of the store
StoredRecords ==
    {from_slice(db[k]).info : k \in {x \in DOMAIN db : HasAddressPrefix(x)}}

\* C19: in a run with no crash, no failed task and no clear call, once every
\* call has returned and every persist and remove task has run, the address
\* entries of the store are the records of the queue; a record that was popped
\* has no entry left.
C19_MirrorConverges ==
    (engine = "up" /\ AllIdle /\ tasks = EmptyBag) =>
        /\ StoredRecords = Range(address_queue)
        /\ \A r \in Range(popped) : AddressKey(r.id) \notin DOMAIN db

\* C20: whatever the interleaving of store_address, get_next_address and
\* clear_all_addresses calls, the size count_addresses reads is at least 0 and at
\* most the records loaded by new() plus the store_address calls started.
C20_SizeNeverWraps ==
    engine = "up" =>
        /\ count_addresses >= 0
        /\ count_addresses <=
               Len(recovered) + StoresReturned + Cardinality(StoreInFlight)

====
